---- MODULE Spec2Model ----
(***************************************************************************)
(* Clausius-Clapeyron analysis pipeline of app.py: pressure_conversion,    *)
(* analyze_vaporization (unit conversion, linearization, OLS regression,   *)
(* extraction of physical quantities) and the driver main().               *)
(*                                                                         *)
(* Floating point values are modelled as fixed-point numbers extended with *)
(* the IEEE special values the numpy operations of the source produce      *)
(* instead of raising: NaN, +Inf and -Inf.  Units:                         *)
(*   temperatures   centi-degrees          (273.15 K  = 27315)             *)
(*   pressures      pascal                 (101325 Pa = 101325)            *)
(*   x = 1/T        XScale / T                                             *)
(*   y = ln(P)      YScale * ln(P)                                         *)
(*   slope          SlopeScale * (y units / x units)                       *)
(*   rvalue         RScale * r                                             *)
(***************************************************************************)
EXTENDS Integers, Sequences, FiniteSets, TLC

\* ------------------------------------------------------------------------
\* Bounds of the model
\* ------------------------------------------------------------------------
MaxLen == 2
MaxCallLen == 2

\* ------------------------------------------------------------------------
\* Program constants
\* ------------------------------------------------------------------------
\* constants.py: R = 8.314 J/(mol*K), in milli-units
GasConstant == 8314
\* constants.py: P_ATM_STD = 101325.0 Pa
StandardAtmosphere == 101325
\* app.py: temp_k = temp_c + 273.15, in centi-degrees
KelvinOffset == 27315
\* app.py: dh_vap = (...) / 1000.0
JoulePerKiloJoule == 1000

\* Fixed-point resolutions
XScale == 7200000
YScale == 16
SlopeScale == 1000
RScale == 1000
\* ln(2) in thousandths, used by the fixed-point logarithm and exponential
Ln2Milli == 693

\* ------------------------------------------------------------------------
\* Floating point values: finite fixed-point numbers and IEEE specials
\* ------------------------------------------------------------------------
Fin(n) == [k |-> "fin", v |-> n]
NaN == [k |-> "nan", v |-> 0]
PInf == [k |-> "inf", v |-> 1]
NInf == [k |-> "inf", v |-> -1]

IsFin(a) == a.k = "fin"
IsNaN(a) == a.k = "nan"
IsInf(a) == a.k = "inf"

Sign(n) == IF n > 0 THEN 1 ELSE IF n < 0 THEN -1 ELSE 0
Abs(n) == IF n < 0 THEN -n ELSE n
\* integer division rounding toward zero
TDiv(a, b) == Sign(a) * Sign(b) * (Abs(a) \div Abs(b))
InfOf(s) == IF s > 0 THEN PInf ELSE NInf

\* a + b
FAdd(a, b) ==
    IF IsNaN(a) \/ IsNaN(b) THEN NaN
    ELSE IF IsInf(a) /\ IsInf(b) THEN (IF a.v = b.v THEN a ELSE NaN)
    ELSE IF IsInf(a) THEN a
    ELSE IF IsInf(b) THEN b
    ELSE Fin(a.v + b.v)

FNeg(a) == IF IsNaN(a) THEN NaN ELSE [k |-> a.k, v |-> -a.v]

\* a - b
FSub(a, b) == FAdd(a, FNeg(b))

\* a * b, the product of two numbers whose scales multiply to s times the
\* scale of the result
FMul(a, b, s) ==
    IF IsNaN(a) \/ IsNaN(b) THEN NaN
    ELSE IF IsInf(a) \/ IsInf(b)
         THEN (IF Sign(a.v) * Sign(b.v) = 0 THEN NaN
               ELSE InfOf(Sign(a.v) * Sign(b.v)))
    ELSE Fin(TDiv(a.v * b.v, s))

\* a / b under numpy's float64 rules (no exception: x/0 is +-Inf, 0/0 is
\* NaN), the quotient carried at s times the ratio of the operands' scales
FDiv(a, b, s) ==
    IF IsNaN(a) \/ IsNaN(b) THEN NaN
    ELSE IF IsInf(a) /\ IsInf(b) THEN NaN
    ELSE IF IsInf(a) THEN InfOf(a.v * (IF b.v < 0 THEN -1 ELSE 1))
    ELSE IF IsInf(b) THEN Fin(0)
    ELSE IF b.v = 0 THEN (IF a.v = 0 THEN NaN ELSE InfOf(a.v))
    ELSE Fin(TDiv(a.v * s, b.v))

\* comparisons: every comparison with NaN is False
FLt(a, b) ==
    IF IsNaN(a) \/ IsNaN(b) THEN FALSE
    ELSE IF IsInf(a) THEN a.v < 0 /\ ~(IsInf(b) /\ b.v < 0)
    ELSE IF IsInf(b) THEN b.v > 0
    ELSE a.v < b.v
FEq(a, b) == ~IsNaN(a) /\ ~IsNaN(b) /\ a = b
FLe(a, b) == FLt(a, b) \/ FEq(a, b)
FGt(a, b) == FLt(b, a)

\* floor of the binary logarithm of n >= 1
RECURSIVE Log2Floor(_)
Log2Floor(n) == IF n < 2 THEN 0 ELSE 1 + Log2Floor(n \div 2)

RECURSIVE Pow2(_)
Pow2(k) == IF k <= 0 THEN 1 ELSE 2 * Pow2(k - 1)

\* YScale * ln(n) for n >= 1: binary logarithm with a linearly interpolated
\* mantissa, times ln 2
LnFix(n) ==
    LET k == Log2Floor(n)
        l2 == k * YScale + ((n - Pow2(k)) * YScale) \div Pow2(k)
    IN (l2 * Ln2Milli) \div 1000

\* np.log: log(0) = -Inf, log(negative) = NaN, neither raises
FLog(a) ==
    IF IsNaN(a) THEN NaN
    ELSE IF IsInf(a) THEN (IF a.v > 0 THEN PInf ELSE NaN)
    ELSE IF a.v = 0 THEN NInf
    ELSE IF a.v < 0 THEN NaN
    ELSE Fin(LnFix(a.v))

\* integer square root (floor)
RECURSIVE ISqrtFrom(_, _)
ISqrtFrom(n, r) == IF (r + 1) * (r + 1) > n THEN r ELSE ISqrtFrom(n, r + 1)
RECURSIVE ISqrt(_)
ISqrt(n) == IF n < 4 THEN ISqrtFrom(n, 0)
            ELSE LET h == 2 * ISqrt(n \div 4) IN ISqrtFrom(n, h)

\* np.sqrt
FSqrt(a) ==
    IF IsNaN(a) THEN NaN
    ELSE IF IsInf(a) THEN (IF a.v > 0 THEN PInf ELSE NaN)
    ELSE IF a.v < 0 THEN NaN
    ELSE Fin(ISqrt(a.v))

\* np.exp of a YScale-scaled argument, the inverse of LnFix
FExp(a) ==
    IF IsNaN(a) THEN NaN
    ELSE IF IsInf(a) THEN (IF a.v > 0 THEN PInf ELSE Fin(0))
    ELSE IF a.v < 0 THEN Fin(0)
    ELSE LET t == (a.v * 1000) \div Ln2Milli
             k == t \div YScale
             f == t % YScale
         IN Fin((Pow2(k) * (YScale + f)) \div YScale)

\* ------------------------------------------------------------------------
\* numpy reductions over arrays (sequences of floating point values)
\* ------------------------------------------------------------------------
RECURSIVE FSum(_)
FSum(a) == IF a = <<>> THEN Fin(0) ELSE FAdd(a[1], FSum(Tail(a)))

\* np.amax / np.amin of a non-empty array: NaN propagates
RECURSIVE FMax(_)
FMax(a) ==
    IF Len(a) = 1 THEN a[1]
    ELSE LET m == FMax(Tail(a))
         IN IF IsNaN(a[1]) \/ IsNaN(m) THEN NaN
            ELSE IF FLt(m, a[1]) THEN a[1] ELSE m
RECURSIVE FMin(_)
FMin(a) ==
    IF Len(a) = 1 THEN a[1]
    ELSE LET m == FMin(Tail(a))
         IN IF IsNaN(a[1]) \/ IsNaN(m) THEN NaN
            ELSE IF FLt(a[1], m) THEN a[1] ELSE m

\* np.mean
FMean(a) == FDiv(FSum(a), Fin(Len(a)), 1)

\* one entry of np.cov(x, y, bias=1): mean((a - mean(a)) * (b - mean(b)))
FCov(a, b) ==
    LET am == FMean(a)
        bm == FMean(b)
        prod == [i \in 1..Len(a) |->
                    FMul(FSub(a[i], am), FSub(b[i], bm), 1)]
    IN FDiv(FSum(prod), Fin(Len(a)), 1)

\* np.any(a <= 0)
AnyNonPositive(a) == \E i \in 1..Len(a) : FLe(a[i], Fin(0))

\* ------------------------------------------------------------------------
\* Inputs
\* ------------------------------------------------------------------------
\* temperatures in centi-degrees Celsius: -400 K, 0 K, 200 K, 400 K
TempInputs == {-67315, -27315, -7315, 12685}
\* transducer pressures in Pa: absolute -1 atm, 0, 1 atm, 2 atm
PressInputs == {-202650, -101325, 0, 101325}
\* positive atmospheric pressures for a direct pressure_conversion call
AtmInputs == {101325, 202650}
Labels == {"Compound", "Cyclohexane (Mock)"}

FloatArrays(S, n) == UNION {[1..m -> {Fin(v) : v \in S}] : m \in 0..n}
\* paired sample sets (temp_c, p_trans_pa) with at most n samples
SampleSets(T, P, n) ==
    UNION {{[temp_c |-> t, p_trans_pa |-> p] :
                t \in [1..m -> {Fin(v) : v \in T}],
                p \in [1..m -> {Fin(v) : v \in P}]} : m \in 0..n}

\* the smaller input domain of the repeated-call specification
CallTempInputs == {-7315, 12685}
CallPressInputs == {-101325, 0}
CallLabels == {"Compound"}

\* constants.py: CYCLOHEXANE_REF, METHANOL_REF (tenths of the source unit)
CYCLOHEXANE_REF == [dH_vap_ref |-> 320, Tb_ref |-> 3539, dS_vap_ref |-> 904]
METHANOL_REF == [dH_vap_ref |-> 374, Tb_ref |-> 3378, dS_vap_ref |-> 1107]
\* constants.py: REFERENCE_DATA as written
ReferenceTable ==
    [c \in {"cyclohexane", "methanol"} |->
        IF c = "cyclohexane" THEN CYCLOHEXANE_REF ELSE METHANOL_REF]
\* other contents the reference table may be given
ReferenceTables ==
    {ReferenceTable,
     [c \in {"cyclohexane", "methanol"} |->
        IF c = "cyclohexane" THEN METHANOL_REF ELSE CYCLOHEXANE_REF]}

\* ------------------------------------------------------------------------
\* State
\* ------------------------------------------------------------------------
VARIABLES
    pc,             \* position of the running call
    caller,         \* "none", "convert", "analyze" or "main"
    temp_c,         \* argument of analyze_vaporization
    p_trans_pa,     \* argument of analyze_vaporization / pressure_conversion
    p_atm_pa,       \* argument of pressure_conversion
    label,          \* argument of analyze_vaporization
    temp_k,         \* local of analyze_vaporization
    p_abs,          \* local of pressure_conversion / analyze_vaporization
    x,              \* local of analyze_vaporization
    y,              \* local of analyze_vaporization
    res,            \* local of analyze_vaporization: <<linregress result>>
    result,         \* <<returned record>>, or <<>> while none is returned
    err,            \* the exception raised, "none" if none
    emitted,        \* lines the running call has printed
    R,              \* module global of constants.py
    P_ATM_STD,      \* module global of constants.py
    REFERENCE_DATA, \* module global of constants.py
    first           \* history: <<the first completed call>>

vars == <<pc, caller, temp_c, p_trans_pa, p_atm_pa, label, temp_k, p_abs, x,
          y, res, result, err, emitted, R, P_ATM_STD, REFERENCE_DATA, first>>

args == <<temp_c, p_trans_pa, p_atm_pa, label>>
locals == <<temp_k, p_abs, x, y, res>>
globals == <<R, P_ATM_STD, REFERENCE_DATA>>

\* ------------------------------------------------------------------------
\* pressure_conversion (app.py 47-57)
\* ------------------------------------------------------------------------
\* faulty variant: sums below zero are clamped to zero
AbsolutePressure_clamped(p_trans, p_atm) ==
    [i \in 1..Len(p_trans) |->
        IF FLt(FAdd(p_atm, p_trans[i]), Fin(0)) THEN Fin(0)
        ELSE FAdd(p_atm, p_trans[i])]

\* p_abs = p_atm_pa + p_trans_pa, element-wise
AbsolutePressure(p_trans, p_atm) ==
    [i \in 1..Len(p_trans) |-> FAdd(p_atm, p_trans[i])]

\* faulty variant: the check is p_abs < 0, a zero absolute pressure goes unnoticed
ConversionWarning_strict(pa) ==
    IF \E i \in 1..Len(pa) : FLt(pa[i], Fin(0)) THEN <<"WARNING">> ELSE <<>>

\* what the function prints: the warning, once, if np.any(p_abs <= 0)
ConversionWarning(pa) ==
    IF AnyNonPositive(pa) THEN <<"WARNING">> ELSE <<>>

\* ------------------------------------------------------------------------
\* scipy.stats.linregress as called at app.py 73
\* ------------------------------------------------------------------------
\* the ValueError conditions: empty input, or all x identical
LinregressRaises(xs, ys) ==
    \/ Len(xs) = 0
    \/ Len(ys) = 0
    \/ (Len(xs) > 1 /\ FEq(FMax(xs), FMin(xs)))

\* faulty variant: the zero-variance case is not singled out
RValue_unguarded(ssxm, ssxym, ssym) ==
    LET r == FDiv(ssxym, FSqrt(FMul(ssxm, ssym, 1)), RScale)
    IN IF FGt(r, Fin(RScale)) THEN Fin(RScale)
       ELSE IF FLt(r, Fin(-RScale)) THEN Fin(-RScale)
       ELSE r

\* r = ssxym / sqrt(ssxm * ssym), forced into [-1, 1]; 0 if a variance is 0
RValue(ssxm, ssxym, ssym) ==
    IF FEq(ssxm, Fin(0)) \/ FEq(ssym, Fin(0)) THEN Fin(0)
    ELSE LET r == FDiv(ssxym, FSqrt(FMul(ssxm, ssym, 1)), RScale)
         IN IF FGt(r, Fin(RScale)) THEN Fin(RScale)
            ELSE IF FLt(r, Fin(-RScale)) THEN Fin(-RScale)
            ELSE r

linregress(xs, ys) ==
    LET xmean == FMean(xs)
        ymean == FMean(ys)
        ssxm == FCov(xs, xs)
        ssxym == FCov(xs, ys)
        ssym == FCov(ys, ys)
        slope == FDiv(ssxym, ssxm, SlopeScale)
    IN [slope |-> slope,
        intercept |-> FSub(ymean, FMul(slope, xmean, SlopeScale)),
        rvalue |-> RValue(ssxm, ssxym, ssym)]

\* ------------------------------------------------------------------------
\* analyze_vaporization (app.py 59-101), one definition per numbered step
\* ------------------------------------------------------------------------
\* 1. temp_k = temp_c + 273.15
ToKelvin(tc) == [i \in 1..Len(tc) |-> FAdd(tc[i], Fin(KelvinOffset))]

\* 2. x = 1.0 / temp_k
Reciprocal(tk) == [i \in 1..Len(tk) |-> FDiv(Fin(XScale), tk[i], 1)]

\* 2. y = np.log(p_abs)
LogPressure(pa) == [i \in 1..Len(pa) |-> FLog(pa[i])]

\* r_squared = float(res.rvalue**2)
RSquared(r) == FMul(r, r, RScale)

\* 4. dh_vap = (-1.0 * slope * R) / 1000.0
Enthalpy(slope) ==
    FDiv(FMul(FMul(Fin(-1), slope, 1), Fin(R), 1000),
         Fin(JoulePerKiloJoule), 1)

\* faulty variant: the entropy is taken from the reference table
Entropy_from_reference(intercept) ==
    Fin(REFERENCE_DATA["cyclohexane"].dS_vap_ref)

\* 4. ds_vap = (intercept - np.log(P_ATM_STD)) * R
Entropy(intercept) ==
    FMul(FSub(intercept, FLog(Fin(P_ATM_STD))), Fin(R), 1000)

\* 4. x_b = (np.log(P_ATM_STD) - intercept) / slope ; t_b = 1.0 / x_b
\* (numpy scalar division: a zero divisor gives +-Inf or NaN, no exception)
BoilingPoint(slope, intercept) ==
    LET x_b == FDiv(FSub(FLog(Fin(P_ATM_STD)), intercept), slope, SlopeScale)
    IN FDiv(Fin(XScale), x_b, 1)

\* the returned dict
ResultRecord(lbl, fit, xs, ys) ==
    [label |-> lbl,
     slope |-> fit.slope,
     intercept |-> fit.intercept,
     r_squared |-> RSquared(fit.rvalue),
     dH_vap |-> Enthalpy(fit.slope),
     dS_vap |-> Entropy(fit.intercept),
     Tb |-> BoilingPoint(fit.slope, fit.intercept),
     x |-> xs,
     y |-> ys]

\* ------------------------------------------------------------------------
\* main (app.py 130-160): the mock dataset
\* ------------------------------------------------------------------------
\* mock_t_c = [20, 30, 40, 50, 60]
mock_t_c == <<Fin(2000), Fin(3000), Fin(4000), Fin(5000), Fin(6000)>>

\* p_trans_mock, generated from REFERENCE_DATA["cyclohexane"]
p_trans_mock ==
    LET ref == REFERENCE_DATA["cyclohexane"]
        slope_mock == FDiv(FMul(Fin(-ref.dH_vap_ref), Fin(1000), 1),
                           Fin(R), 100)
        intercept_mock == FAdd(FDiv(Fin(ref.dS_vap_ref), Fin(R), 100 * YScale),
                               FLog(Fin(P_ATM_STD)))
        tk == ToKelvin(mock_t_c)
    IN [i \in 1..Len(mock_t_c) |->
          FSub(FExp(FAdd(FDiv(slope_mock, tk[i], 100 * YScale),
                         intercept_mock)),
               Fin(P_ATM_STD))]

\* ------------------------------------------------------------------------
\* Initial state: module imported, nothing called yet
\* ------------------------------------------------------------------------
NoArray == <<>>

FrameCleared ==
    /\ temp_c = NoArray /\ p_trans_pa = NoArray
    /\ p_atm_pa = Fin(StandardAtmosphere) /\ label = "Compound"
    /\ temp_k = NoArray /\ p_abs = NoArray /\ x = NoArray /\ y = NoArray
    /\ res = <<>> /\ result = <<>> /\ err = "none" /\ emitted = <<>>

Init ==
    /\ pc = "idle"
    /\ caller = "none"
    /\ FrameCleared
    /\ R = GasConstant
    /\ P_ATM_STD = StandardAtmosphere
    /\ REFERENCE_DATA = ReferenceTable
    /\ first = <<>>

\* ------------------------------------------------------------------------
\* Actions
\* ------------------------------------------------------------------------
\* a caller invokes pressure_conversion(p, a); the function runs to its
\* return (it has no raising statement on arrays of numbers)
pressure_conversion(P, n) ==
    /\ pc = "idle"
    /\ \E p \in FloatArrays(P, n), a \in AtmInputs :
          /\ p_trans_pa' = p
          /\ p_atm_pa' = Fin(a)
          /\ p_abs' = AbsolutePressure(p, Fin(a))
          /\ emitted' = ConversionWarning(AbsolutePressure(p, Fin(a)))
    /\ pc' = "returned"
    /\ caller' = "convert"
    /\ UNCHANGED <<temp_c, label, temp_k, x, y, res, result, err, globals,
                   first>>

\* a caller invokes analyze_vaporization(temp_c, p_trans_pa, label)
analyze_vaporization(T, P, L, n) ==
    /\ pc = "idle"
    /\ \E s \in SampleSets(T, P, n), l \in L :
          /\ temp_c' = s.temp_c
          /\ p_trans_pa' = s.p_trans_pa
          /\ label' = l
    /\ pc' = "convert_units"
    /\ caller' = "analyze"
    /\ UNCHANGED <<p_atm_pa, locals, result, err, emitted, globals, first>>

\* main() prints its banner, builds the mock dataset and calls
\* analyze_vaporization
main ==
    /\ pc = "idle"
    /\ emitted' = <<"BANNER">>
    /\ temp_c' = mock_t_c
    /\ p_trans_pa' = p_trans_mock
    /\ label' = "Cyclohexane (Mock)"
    /\ pc' = "convert_units"
    /\ caller' = "main"
    /\ UNCHANGED <<p_atm_pa, locals, result, err, globals, first>>

\* faulty variant: the conversion step adds onto the module global
\* P_ATM_STD and leaves the first absolute pressure in it
convert_units_rebinds_global ==
    /\ pc = "convert_units"
    /\ temp_k' = ToKelvin(temp_c)
    /\ p_abs' = AbsolutePressure(p_trans_pa, Fin(P_ATM_STD))
    /\ emitted' = emitted \o
          ConversionWarning(AbsolutePressure(p_trans_pa, Fin(P_ATM_STD)))
    /\ P_ATM_STD' = IF p_trans_pa = <<>> THEN P_ATM_STD
                    ELSE P_ATM_STD + p_trans_pa[1].v
    /\ pc' = "linearize"
    /\ UNCHANGED <<caller, args, x, y, res, result, err, R, REFERENCE_DATA,
                   first>>

\* 1. Convert Units (app.py 64-65); pressure_conversion is called with its
\* default p_atm_pa, bound to 101325.0 when the function was defined
convert_units ==
    /\ pc = "convert_units"
    /\ temp_k' = ToKelvin(temp_c)
    /\ p_abs' = AbsolutePressure(p_trans_pa, Fin(StandardAtmosphere))
    /\ emitted' = emitted \o
          ConversionWarning(AbsolutePressure(p_trans_pa,
                                             Fin(StandardAtmosphere)))
    /\ pc' = "linearize"
    /\ UNCHANGED <<caller, args, x, y, res, result, err, globals, first>>

\* 2. Linearize Data (app.py 69-70)
linearize ==
    /\ pc = "linearize"
    /\ x' = Reciprocal(temp_k)
    /\ y' = LogPressure(p_abs)
    /\ pc' = "regress"
    /\ UNCHANGED <<caller, args, temp_k, p_abs, res, result, err, emitted,
                   globals, first>>

\* 3. OLS Regression (app.py 73-76)
regress ==
    /\ pc = "regress"
    /\ IF LinregressRaises(x, y)
       THEN /\ err' = "ValueError"
            /\ pc' = "raised"
            /\ res' = res
       ELSE /\ res' = <<linregress(x, y)>>
            /\ pc' = "extract"
            /\ err' = err
    /\ UNCHANGED <<caller, args, temp_k, p_abs, x, y, result, emitted,
                   globals, first>>

\* 4. Extract Physical Constants and return (app.py 80-101)
extract ==
    /\ pc = "extract"
    /\ result' = <<ResultRecord(label, res[1], x, y)>>
    /\ pc' = "returned"
    /\ UNCHANGED <<caller, args, locals, err, emitted, globals, first>>

\* what a finished call showed its caller
Outcome ==
    [fn |-> caller, temp_c |-> temp_c, p_trans_pa |-> p_trans_pa,
     p_atm_pa |-> p_atm_pa, label |-> label, ref |-> REFERENCE_DATA,
     pc |-> pc, p_abs |-> p_abs, result |-> result, err |-> err,
     emitted |-> emitted]

\* the call of a library caller is over: its frame is discarded.  With
\* logged, the first completed call is kept as history.
call_return(logged) ==
    /\ pc \in {"returned", "raised"}
    /\ caller \in {"convert", "analyze"}
    /\ pc' = "idle"
    /\ caller' = "none"
    /\ temp_c' = NoArray /\ p_trans_pa' = NoArray
    /\ p_atm_pa' = Fin(StandardAtmosphere) /\ label' = "Compound"
    /\ temp_k' = NoArray /\ p_abs' = NoArray /\ x' = NoArray /\ y' = NoArray
    /\ res' = <<>> /\ result' = <<>> /\ err' = "none" /\ emitted' = <<>>
    /\ first' = IF logged /\ first = <<>> THEN <<Outcome>> ELSE first
    /\ UNCHANGED globals

\* main after its call of analyze_vaporization (app.py 150-157): an exception
\* of the call leaves main uncaught, otherwise the summary is printed
main_report ==
    /\ pc \in {"returned", "raised"}
    /\ caller = "main"
    /\ IF pc = "raised"
       THEN /\ pc' = "halt"
            /\ emitted' = emitted
       ELSE /\ pc' = "reporting"
            /\ emitted' = Append(emitted, "SUMMARY")
    /\ UNCHANGED <<caller, args, locals, result, err, globals, first>>

\* main calls plot_results, which saves the plot (app.py 160, 103-128)
plot_results ==
    /\ pc = "reporting"
    /\ emitted' = Append(emitted, "PLOT")
    /\ pc' = "done"
    /\ UNCHANGED <<caller, args, locals, result, err, globals, first>>

\* the importing program gives the reference table other contents
set_reference ==
    /\ pc = "idle"
    /\ \E t \in ReferenceTables :
          /\ t # REFERENCE_DATA
          /\ REFERENCE_DATA' = t
    /\ UNCHANGED <<pc, caller, args, locals, result, err, emitted, R,
                   P_ATM_STD, first>>

Next ==
    \/ pressure_conversion(PressInputs, MaxLen)
    \/ analyze_vaporization(TempInputs, PressInputs, Labels, MaxLen)
    \/ main
    \/ convert_units
    \/ linearize
    \/ regress
    \/ extract
    \/ call_return(FALSE)
    \/ main_report
    \/ plot_results

Spec == Init /\ [][Next]_vars

\* repeated calls, with the first call kept as history and the reference
\* table's contents varying between calls
NextCalls ==
    \/ pressure_conversion(CallPressInputs, MaxCallLen)
    \/ analyze_vaporization(CallTempInputs, CallPressInputs, CallLabels,
                            MaxCallLen)
    \/ convert_units
    \/ linearize
    \/ regress
    \/ extract
    \/ call_return(TRUE)
    \/ set_reference

SpecCalls == Init /\ [][NextCalls]_vars

\* ------------------------------------------------------------------------
\* Properties
\* ------------------------------------------------------------------------
InAnalyze == caller \in {"analyze", "main"}
Returned == pc \in {"returned", "reporting", "done"}
Raised == pc \in {"raised", "halt"}

\* some sample has T_c + 273.15 <= 0
NonPositiveKelvin ==
    \E i \in 1..Len(temp_c) : temp_c[i].v + KelvinOffset <= 0
\* some sample has atmospheric_pressure + transducer_pressure <= 0
NonPositivePressure ==
    \E i \in 1..Len(p_trans_pa) : p_atm_pa.v + p_trans_pa[i].v <= 0
DistinctTemperatures ==
    \A i, j \in 1..Len(temp_c) : i # j => temp_c[i] # temp_c[j]
EqualPressures ==
    \A i, j \in 1..Len(p_trans_pa) : p_trans_pa[i] = p_trans_pa[j]
\* N >= 2, distinct positive kelvin temperatures, positive absolute pressures
ValidSampleSet ==
    /\ Len(temp_c) >= 2
    /\ DistinctTemperatures
    /\ ~NonPositiveKelvin
    /\ ~NonPositivePressure
Warned == \E i \in 1..Len(emitted) : emitted[i] = "WARNING"
AllFinite(a) == \A i \in 1..Len(a) : IsFin(a[i])
WellDefined(rec) ==
    /\ IsFin(rec.slope) /\ IsFin(rec.intercept) /\ IsFin(rec.r_squared)
    /\ IsFin(rec.dH_vap) /\ IsFin(rec.dS_vap) /\ IsFin(rec.Tb)
    /\ AllFinite(rec.x) /\ AllFinite(rec.y)

\* C1: an analyze call whose input has a sample with T_c + 273.15 <= 0 or
\* with atmospheric + transducer pressure <= 0 fails before or during the
\* linearization step: it never stands at the regression step or beyond it.
C1_InvalidSampleStopsBeforeRegression ==
    (InAnalyze /\ (NonPositiveKelvin \/ NonPositivePressure))
        => pc \in {"convert_units", "linearize", "raised", "halt"}

\* C2: pressure_conversion never raises; it returns every sum
\* atmospheric_pressure + transducer_pressures[i] unchanged, prints exactly
\* one warning when some sum is <= 0 and no warning when every sum is > 0.
C2_ConverterSoftFails ==
    (caller = "convert" /\ pc # "idle") =>
        /\ pc = "returned"
        /\ err = "none"
        /\ \A i \in 1..Len(p_trans_pa) :
              p_abs[i] = Fin(p_atm_pa.v + p_trans_pa[i].v)
        /\ (NonPositivePressure => emitted = <<"WARNING">>)
        /\ (~NonPositivePressure => emitted = <<>>)

C2_Witness ==
    /\ caller = "convert"
    /\ pc = "returned"
    /\ Len(p_abs) = 2
    /\ p_abs[1].v <= 0
    /\ p_abs[2].v > 0
    /\ emitted = <<"WARNING">>

\* C3: in an analyze call where some absolute pressure is <= 0 and every
\* kelvin temperature is positive, the warning is printed by the conversion
\* and the call then ends in an error raised at the logarithm step: past
\* that step the call is in its raised state and no record is ever returned.
C3_WarningThenErrorAtLogStep ==
    (InAnalyze /\ NonPositivePressure /\ ~NonPositiveKelvin
        /\ pc # "convert_units")
        => /\ Warned
           /\ pc \in {"linearize", "raised", "halt"}
           /\ result = <<>>
           /\ (Raised => err # "none")

\* C4: analyze raises whenever the sample set has fewer than 2 samples or
\* all linearized x are identical, and returns a record for every set of
\* exactly 2 samples with distinct temperatures and positive pressures.
C4_UnderdeterminedRaises ==
    (caller = "analyze" /\ pc \in {"returned", "raised"}) =>
        /\ (Len(temp_c) < 2 \/ (\A i, j \in 1..Len(x) : x[i] = x[j]))
              => (pc = "raised" /\ err # "none" /\ result = <<>>)
        /\ (Len(temp_c) = 2 /\ DistinctTemperatures /\ ~NonPositivePressure)
              => (pc = "returned" /\ result # <<>>)

\* C5: for a valid sample set whose y are all equal (fitted slope exactly
\* 0), analyze passes conversion, linearization and regression and then
\* raises at the boiling-point back-solve; no record is returned.
C5_ZeroSlopeRaisesAtBackSolve ==
    (InAnalyze /\ ValidSampleSet /\ EqualPressures
        /\ pc \notin {"convert_units", "linearize", "regress", "extract"})
        => /\ Raised
           /\ err # "none"
           /\ res # <<>>
           /\ result = <<>>

\* C6: an analyze call either returns a record all of whose fields are
\* computed from well-defined values, or raises and returns no record; the
\* driver reaches the summary and the plot only on valid data.
C6_AllOrNothing ==
    InAnalyze =>
        /\ Returned => (/\ err = "none"
                        /\ result # <<>>
                        /\ result[1].label = label
                        /\ WellDefined(result[1]))
        /\ ~Returned => result = <<>>
        /\ (caller = "main" /\ pc \in {"reporting", "done"})
              => ValidSampleSet

\* the running call is the call kept as history
SameCall(o) ==
    /\ o.fn = caller
    /\ o.temp_c = temp_c
    /\ o.p_trans_pa = p_trans_pa
    /\ o.p_atm_pa = p_atm_pa
    /\ o.label = label
SameOutcome(o) ==
    /\ o.pc = pc
    /\ o.err = err
    /\ o.result = result
    /\ o.p_abs = p_abs
    /\ o.emitted = emitted

\* C7: the outcome of a call is a function of its arguments only: a call
\* made after any earlier calls ends as the same call made first did, and
\* between calls nothing a call reads has been written (the frame is gone,
\* the module constants hold their values).
C7_OutcomeDependsOnArgumentsOnly ==
    /\ pc = "idle" =>
          (FrameCleared /\ R = GasConstant /\ P_ATM_STD = StandardAtmosphere)
    /\ (first # <<>> /\ pc \in {"returned", "raised"} /\ SameCall(first[1]))
          => SameOutcome(first[1])

C7_Witness ==
    /\ first # <<>>
    /\ SameCall(first[1])
    /\ caller = "analyze"
    /\ pc = "returned"
    /\ Len(temp_c) = 2
    /\ Warned

\* C8: for every valid input (N >= 2, distinct positive kelvin
\* temperatures, positive absolute pressures) the returned record has
\* 0 <= r_squared <= 1.
C8_RSquaredInUnitInterval ==
    (InAnalyze /\ Returned /\ ValidSampleSet) =>
        /\ IsFin(result[1].r_squared)
        /\ 0 <= result[1].r_squared.v
        /\ result[1].r_squared.v <= RScale

C8_Witness ==
    /\ caller = "analyze"
    /\ pc = "returned"
    /\ ValidSampleSet
    /\ EqualPressures
    /\ result[1].r_squared = Fin(0)

\* C9: the absolute pressure sequence has the length of the transducer
\* pressure sequence and its i-th element is a + p[i], in order; the
\* linearized x and y of a returned record have the length of the sample set.
C9_LengthAndOrderPreserved ==
    /\ (pc \in {"linearize", "regress", "extract", "returned", "raised"}) =>
          /\ Len(p_abs) = Len(p_trans_pa)
          /\ \A i \in 1..Len(p_abs) :
                p_abs[i] = Fin(p_atm_pa.v + p_trans_pa[i].v)
    /\ (InAnalyze /\ Returned) =>
          /\ Len(result[1].x) = Len(temp_c)
          /\ Len(result[1].y) = Len(temp_c)

C9_Witness ==
    /\ caller = "convert"
    /\ pc = "returned"
    /\ Len(p_abs) = 2
    /\ p_abs[1].v < 0
    /\ p_abs[2].v > 0
    /\ p_abs[1] = Fin(p_atm_pa.v + p_trans_pa[1].v)

\* a finished call agrees with the same call made first under other
\* contents of the reference table
C10_SameUnderOtherReference ==
    (first # <<>> /\ pc \in {"returned", "raised"} /\ SameCall(first[1])
        /\ first[1].ref # REFERENCE_DATA)
        => SameOutcome(first[1])

\* C10: the reference data never influences the core computation: a call
\* ends the same under every content of the reference table, and no step of
\* pressure_conversion or analyze_vaporization writes the reference table,
\* the gas constant or the standard atmosphere.
C10_ReferenceNeverFeedsBack ==
    /\ []C10_SameUnderOtherReference
    /\ [][/\ R' = R
          /\ P_ATM_STD' = P_ATM_STD
          /\ (pc # "idle" \/ pc' # "idle")
                => REFERENCE_DATA' = REFERENCE_DATA]_vars

C10_Witness ==
    /\ first # <<>>
    /\ SameCall(first[1])
    /\ first[1].ref # REFERENCE_DATA
    /\ caller = "analyze"
    /\ pc = "returned"
    /\ ValidSampleSet
    /\ IsFin(result[1].dS_vap)

====
